---- MODULE Spec2Model ----
(***************************************************************************)
(* Model of the Mayo Clinic guideline scraper                              *)
(* (gap-replay/guidelines/scrapers/mayo/src/index.ts): run(), the          *)
(* traversal loop PuppeteerRun.scrape() and the extractor getGuideline().  *)
(* The browser, the web site and the two output files are the environment: *)
(* every call into them either returns or throws.                          *)
(***************************************************************************)
EXTENDS Integers, Sequences, FiniteSets, TLC

(* ---------------- bounds of the environment ---------------- *)
\* total number of TOC links the site serves during one run
MaxEntries == 2
\* number of leading letters of the alphabet whose index page lists any link
MaxLinkLetters == 3
\* number of times the append to the metadata file fails during one run
MaxMetaFaults == 2
\* number of li/h2/p elements of a section page
MaxEls == 3

(* ---------------- program constants ---------------- *)
BACKOFF_TIMEOUT_SEC == 10000
FAILURE_BACKOFF_TIMEOUT_SEC == 300000
\* for (let i = 0; i < 5; i++)
MAX_ATTEMPTS == 5
\* 'A'.charCodeAt(0) and 'Z'.charCodeAt(0)
CODE_A == 65
CODE_Z == 90

(* ---------------- the web site (inputs) ---------------- *)
\* A URL is its sequence of "/"-separated segments, host first.
U_other == <<"www.mayoclinic.org", "healthy-lifestyle", "flu", "symptoms-causes">>
U_nosub == <<"www.mayoclinic.org", "diseases-conditions", "flu", "doctors-departments">>
U_sc == <<"www.mayoclinic.org", "diseases-conditions", "flu", "symptoms-causes">>
U_dt == <<"www.mayoclinic.org", "diseases-conditions", "flu", "diagnosis-treatment">>
Urls == {U_other, U_nosub, U_sc, U_dt}
Names == {"Flu", "Gout"}
\* a TOC link is the pair [textContent, href] of get_links
TocEntries == {<<n, u>> : n \in Names, u \in Urls}

\* A tab label is its sequence of words.
L_overview == <<"Overview">>
L_symptoms == <<"Symptoms", "&", "causes">>
L_diagnosis == <<"Diagnosis", "&", "treatment">>
L_lower == <<"symptoms", "checker">>
\* the tab links the guideline page at a URL shows: the symptoms-causes pages
\* carry the section tabs, the diagnosis-treatment pages come back without them
PageTabs(url) ==
    IF \E k \in 1..Len(url) : url[k] = "symptoms-causes"
    THEN <<L_overview, L_symptoms, L_diagnosis>>
    ELSE <<L_overview, L_lower>>

\* the subsection mapping of a section page, as the classification pass returns it
SectionMaps == { [h \in {"Overview"} |-> "text"] }

RECURSIVE SeqsUpTo(_, _)
SeqsUpTo(S, n) ==
    IF n = 0 THEN { <<>> }
    ELSE LET shorter == SeqsUpTo(S, n - 1)
         IN shorter \cup { Append(s, e) : s \in { t \in shorter : Len(t) = n - 1 }, e \in S }

(* ---------------- pure helpers of the program ---------------- *)
\* page_url.match(/mayoclinic.org\/diseases-conditions/)
MatchesDiseases(url) ==
    \E k \in 1..(Len(url) - 1) :
        /\ url[k] \in {"www.mayoclinic.org", "mayoclinic.org"}
        /\ url[k + 1] = "diseases-conditions"

\* page_url.match(/\/symptoms-causes/) || page_url.match(/\/diagnosis-treatment/)
MatchesSubtype(url) ==
    \E k \in 2..Len(url) : url[k] \in {"symptoms-causes", "diagnosis-treatment"}

\* el[0].replace(/&/g, '& ')
NormalizeLabel(label) ==
    [k \in 1..Len(label) |-> IF label[k] = "&" THEN "& " ELSE label[k]]

\* mutant: the match ignores case
KeepSection_IgnoreCase(section_name) ==
    \E k \in 1..Len(section_name) :
        section_name[k] \in {"Symptoms", "Diagnosis", "symptoms", "diagnosis"}

\* section_name.match(/Symptoms|Diagnosis/)
KeepSection(section_name) ==
    \E k \in 1..Len(section_name) : section_name[k] \in {"Symptoms", "Diagnosis"}

\* getGuideline: content[section_name] = section_content for every kept tab
GuidelineContent(tabs, sectionMap) ==
    LET kept == { NormalizeLabel(tabs[k]) : k \in 1..Len(tabs) }
    IN [s \in { l \in kept : KeepSection(l) } |-> sectionMap]

\* new Guideline(name, url, content)
Guideline(name, url, content) == [name |-> name, url |-> url, content |-> content]

NoGuideline == [name |-> "", url |-> <<>>, content |-> <<>>]

\* JavaScript truthiness of guideline.content: content is always an object
\* (a Dictionary built by getGuideline), and every object is truthy.
JsTruthy(content) == TRUE

\* the test of line 251: if (!guideline.content)
ContentRejected(g) == ~JsTruthy(g.content)

\* mutant: the probe's rejection handler answers true
check_sel_CatchTrue(outcome) == outcome # "absent"

\* check_sel: page.$eval(selector, () => true).catch(() => false)
check_sel(outcome) == outcome = "found"

VARIABLES
    pc,                     \* position of run()/scrape()
    launches, closes,       \* puppeteer.launch / browser.close calls
    all_good,
    traversed_pages,
    letter,                 \* char code of the loop variable
    toc_links, toc_index,
    i, guideline_saved, guideline,
    guides_saved_for_letter,
    sink, meta,             \* mayo_guidelines.jsonl, mayo_toc.txt (lines)
    loaded,                 \* history: letters whose TOC page was loaded
    escaped,                \* history: an exception left the letter loop
    attempts, shortSleeps, navs, failures, longSleeps,  \* history, per TOC entry
    lastSleep,              \* history: duration of the last sleep()
    entrySink,              \* history: length of the sink when the entry was accepted
    probe,                  \* history: outcome of the letter's selector probe
    dropped,                \* history: names of the entries whose attempts were exhausted
    served, faults,         \* environment budgets used (links served, metadata faults)
    xpc,                    \* position of getGuideline()/getSectionContent()
    section_links, tab_index, content,          \* getGuideline
    sectionPage,            \* the document the section URLs of this guideline serve
    base_sel, sections, el_index,               \* getSectionContent
    subsection_dict, subsection_text, subsection_head,
    timers,                 \* waitForTimeout promises started and not yet settled
    sectionNavs,            \* history: labels of the tabs whose URL was navigated to
    passLog,                \* history: mappings returned by getSectionContent
    reported                \* history: "Couldn't find content selector" was logged

vars == << pc, launches, closes, all_good, traversed_pages, letter, toc_links,
           toc_index, i, guideline_saved, guideline, guides_saved_for_letter,
           sink, meta, loaded, escaped, attempts, shortSleeps, navs, failures,
           longSleeps, lastSleep, entrySink, probe, dropped, served, faults,
           xpc, section_links, tab_index, content, sectionPage, base_sel,
           sections, el_index, subsection_dict, subsection_text,
           subsection_head, timers, sectionNavs, passLog, reported >>

\* the state of the crawl (run, scrape) and the state of the extractor
crawlVars == << pc, launches, closes, all_good, traversed_pages, letter,
                toc_links, toc_index, i, guideline_saved, guideline,
                guides_saved_for_letter, sink, meta, loaded, escaped, attempts,
                shortSleeps, navs, failures, longSleeps, lastSleep, entrySink,
                probe, dropped, served, faults >>
passLocals == << base_sel, sections, el_index, subsection_dict,
                 subsection_text, subsection_head >>
extractVars == << xpc, section_links, tab_index, content, sectionPage,
                  passLocals, timers, sectionNavs, passLog, reported >>

scrapeLocals == << traversed_pages, letter, toc_links, toc_index, i,
                   guideline_saved, guideline, guides_saved_for_letter >>
files == << sink, meta >>
entryHist == << attempts, shortSleeps, navs, failures, longSleeps, lastSleep,
               entrySink >>

page_name == toc_links[toc_index][1]
page_url == toc_links[toc_index][2]

NoPage == [hasContent |-> FALSE, hasGrid |-> FALSE, els |-> <<>>]

\* the extractor before getGuideline is entered
ExtractIdle ==
    /\ section_links = <<>> /\ tab_index = 0 /\ content = <<>>
    /\ sectionPage = NoPage
    /\ base_sel = "" /\ sections = <<>> /\ el_index = 0
    /\ subsection_dict = <<>> /\ subsection_text = <<>> /\ subsection_head = <<>>
    /\ timers = 0 /\ sectionNavs = <<>> /\ passLog = <<>> /\ reported = FALSE

CrawlInit ==
    /\ pc = "setup"
    /\ launches = 0 /\ closes = 0
    /\ all_good = TRUE
    /\ traversed_pages = {}
    /\ letter = CODE_A
    /\ toc_links = <<>> /\ toc_index = 0
    /\ i = 0 /\ guideline_saved = FALSE /\ guideline = NoGuideline
    /\ guides_saved_for_letter = 0
    /\ sink = <<>> /\ meta = <<>>
    /\ loaded = <<>> /\ escaped = FALSE
    /\ attempts = 0 /\ shortSleeps = 0 /\ navs = 0 /\ failures = 0
    /\ longSleeps = 0 /\ lastSleep = 0 /\ entrySink = 0
    /\ probe = "none"
    /\ dropped = {}
    /\ served = 0 /\ faults = 0

Init ==
    /\ CrawlInit
    /\ xpc = "idle"
    /\ ExtractIdle

(* ---------------- run() and setup() ---------------- *)
\* setup: launch, newPage, goto(TOC_URL), waitForTimeout all succeed
Setup ==
    /\ pc = "setup"
    /\ launches' = launches + 1
    /\ pc' = "scrape"
    /\ UNCHANGED << closes, all_good, scrapeLocals, files, loaded, escaped,
                    entryHist, served, faults, probe, dropped, extractVars >>

\* setup throws after the launch (newPage or goto fails): run() rejects
SetupFails ==
    /\ pc = "setup"
    /\ launches' = launches + 1
    /\ pc' = "rejected"
    /\ UNCHANGED << closes, all_good, scrapeLocals, files, loaded, escaped,
                    entryHist, served, faults, probe, dropped, extractVars >>

\* scrape(): var all_good = true; traversed_pages = new Set(); letter = 'A'
ScrapeBegin ==
    /\ pc = "scrape"
    /\ all_good' = TRUE
    /\ traversed_pages' = {}
    /\ letter' = CODE_A
    /\ pc' = "letter"
    /\ UNCHANGED << launches, closes, toc_links, toc_index, i, guideline_saved,
                    guideline, guides_saved_for_letter, files, loaded, escaped,
                    entryHist, served, faults, probe, dropped, extractVars >>

(* ---------------- scrape(): the letter loop ---------------- *)
\* an exception thrown inside the outer try, outside the attempt's try
ThrowFatal ==
    /\ escaped' = TRUE
    /\ pc' = "fatal"

\* mutant: exclusive upper bound
LetterInRange_Exclusive(l) == l < CODE_Z

\* the loop condition letter <= 'Z' (comparison of one-character strings)
LetterInRange(l) == l <= CODE_Z

\* for (letter = 'A'; letter <= 'Z'; ...): goto(letter_URL), waitForTimeout
LetterGoto ==
    /\ pc = "letter"
    /\ LetterInRange(letter)
    /\ guides_saved_for_letter' = 0
    /\ loaded' = Append(loaded, letter)
    /\ pc' = "toc"
    /\ UNCHANGED << launches, closes, all_good, traversed_pages, letter,
                    toc_links, toc_index, i, guideline_saved, guideline, files,
                    escaped, entryHist, served, faults, probe, dropped,
                    extractVars >>

\* page.goto(letter_URL) throws, or the page loads and waitForTimeout throws
LetterGotoFails ==
    /\ pc = "letter"
    /\ LetterInRange(letter)
    /\ guides_saved_for_letter' = 0
    /\ \E pageLoaded \in BOOLEAN :
          loaded' = IF pageLoaded THEN Append(loaded, letter) ELSE loaded
    /\ ThrowFatal
    /\ UNCHANGED << launches, closes, all_good, traversed_pages, letter,
                    toc_links, toc_index, i, guideline_saved, guideline, files,
                    entryHist, served, faults, probe, dropped, extractVars >>

\* the loop condition letter <= 'Z' is false: fall out of the try, return
LettersDone ==
    /\ pc = "letter"
    /\ ~LetterInRange(letter)
    /\ pc' = "ret"
    /\ UNCHANGED << launches, closes, all_good, scrapeLocals, files, loaded,
                    escaped, entryHist, served, faults, probe, dropped,
                    extractVars >>

Probes == {"found", "absent", "error"}

\* check_sel(TOC_RESULT_ITEM_SELECTOR) is false: "No guidelines found for letter"
TocAbsent ==
    /\ pc = "toc"
    /\ \E outcome \in Probes : ~check_sel(outcome) /\ probe' = outcome
    /\ pc' = "letterEnd"
    /\ UNCHANGED << launches, closes, all_good, scrapeLocals, files, loaded,
                    escaped, entryHist, served, faults, dropped, extractVars >>

\* check_sel is true and get_links returns the [name, href] pairs
TocLinks ==
    /\ pc = "toc"
    /\ \E outcome \in Probes : check_sel(outcome) /\ probe' = outcome
    /\ \E links \in SeqsUpTo(TocEntries, MaxEntries - served) :
          /\ (letter >= CODE_A + MaxLinkLetters => links = << >>)
          /\ toc_links' = links
          /\ served' = served + Len(links)
    /\ toc_index' = 1
    /\ pc' = "entry"
    /\ UNCHANGED << launches, closes, all_good, traversed_pages, letter, i,
                    guideline_saved, guideline, guides_saved_for_letter, files,
                    loaded, escaped, entryHist, faults, dropped, extractVars >>

\* check_sel is true and get_links throws
TocLinksFails ==
    /\ pc = "toc"
    /\ \E outcome \in Probes : check_sel(outcome) /\ probe' = outcome
    /\ ThrowFatal
    /\ UNCHANGED << launches, closes, all_good, scrapeLocals, files, loaded,
                    entryHist, served, faults, dropped, extractVars >>

\* end of the letter's iteration (line 275) and the loop increment
LetterEnd ==
    /\ pc = "letterEnd"
    /\ letter' = letter + 1
    /\ probe' = "none"
    /\ pc' = "letter"
    /\ UNCHANGED << launches, closes, all_good, traversed_pages, toc_links,
                    toc_index, i, guideline_saved, guideline,
                    guides_saved_for_letter, files, loaded, escaped, entryHist,
                    served, faults, dropped, extractVars >>

(* ---------------- scrape(): one TOC entry ---------------- *)
\* mutant: the path-subtype filter is missing
Accepted_NoSubtypeFilter(name, url, visited) ==
    /\ name \notin visited
    /\ MatchesDiseases(url)

\* mutant: a guideline dropped earlier is remembered and never tried again
Accepted_RemembersDropped(name, url, visited) ==
    /\ name \notin visited
    /\ name \notin dropped
    /\ MatchesDiseases(url)
    /\ MatchesSubtype(url)

\* the three filters of lines 231-242
Accepted(name, url, visited) ==
    /\ name \notin visited
    /\ MatchesDiseases(url)
    /\ MatchesSubtype(url)

\* for (let [toc_index, el] of toc_links.entries()) is exhausted; toc_links
\* is local to the if-block and goes out of scope
TocDone ==
    /\ pc = "entry"
    /\ toc_index > Len(toc_links)
    /\ toc_links' = <<>>
    /\ toc_index' = 0
    /\ pc' = "letterEnd"
    /\ UNCHANGED << launches, closes, all_good, traversed_pages, letter, i,
                    guideline_saved, guideline, guides_saved_for_letter, files,
                    loaded, escaped, entryHist, served, faults, probe,
                    dropped, extractVars >>

\* one of the three `continue`s
EntrySkip ==
    /\ pc = "entry"
    /\ toc_index <= Len(toc_links)
    /\ ~Accepted(page_name, page_url, traversed_pages)
    /\ toc_index' = toc_index + 1
    /\ pc' = "entry"
    /\ UNCHANGED << launches, closes, all_good, traversed_pages, letter,
                    toc_links, i, guideline_saved, guideline,
                    guides_saved_for_letter, files, loaded, escaped, entryHist,
                    served, faults, probe, dropped, extractVars >>

\* let guideline_saved = false; for (let i = 0; ...)
EntryAccept ==
    /\ pc = "entry"
    /\ toc_index <= Len(toc_links)
    /\ Accepted(page_name, page_url, traversed_pages)
    /\ guideline_saved' = FALSE
    /\ i' = 0
    /\ attempts' = 0 /\ shortSleeps' = 0 /\ navs' = 0 /\ failures' = 0
    /\ longSleeps' = 0 /\ lastSleep' = 0 /\ entrySink' = Len(sink)
    /\ pc' = "loop"
    /\ UNCHANGED << launches, closes, all_good, traversed_pages, letter,
                    toc_links, toc_index, guideline, guides_saved_for_letter,
                    files, loaded, escaped, served, faults, probe, dropped,
                    extractVars >>

\* mutant: the attempt has no try/catch of its own
ThrowAttempt_Escapes ==
    /\ failures' = failures + 1
    /\ pc' = "fatal"

\* an exception thrown inside the attempt's try block
ThrowAttempt ==
    /\ failures' = failures + 1
    /\ pc' = "catch"

\* i < 5: await sleep(BACKOFF_TIMEOUT_SEC)
AttemptSleep ==
    /\ pc = "loop"
    /\ i < MAX_ATTEMPTS
    /\ attempts' = attempts + 1
    /\ shortSleeps' = shortSleeps + 1
    /\ lastSleep' = BACKOFF_TIMEOUT_SEC
    /\ pc' = "goto"
    /\ UNCHANGED << launches, closes, all_good, scrapeLocals, files, loaded,
                    escaped, navs, failures, longSleeps, served, faults, entrySink, probe,
                    dropped, extractVars >>

\* the attempt loop ends without break
AttemptsExhausted ==
    /\ pc = "loop"
    /\ ~(i < MAX_ATTEMPTS)
    /\ pc' = "entryEnd"
    /\ UNCHANGED << launches, closes, all_good, scrapeLocals, files, loaded,
                    escaped, entryHist, served, faults, probe, dropped,
                    extractVars >>

\* await this.page.goto(page_url)
AttemptGoto ==
    /\ pc = "goto"
    /\ navs' = navs + 1
    /\ pc' = "extract"
    /\ UNCHANGED << launches, closes, all_good, scrapeLocals, files, loaded,
                    escaped, attempts, shortSleeps, failures, longSleeps,
                    lastSleep, served, faults, entrySink, probe, dropped,
                    extractVars >>

AttemptGotoFails ==
    /\ pc = "goto"
    /\ navs' = navs + 1
    /\ ThrowAttempt
    /\ UNCHANGED << launches, closes, all_good, scrapeLocals, files, loaded,
                    escaped, attempts, shortSleeps, longSleeps, lastSleep,
                    served, faults, entrySink, probe, dropped, extractVars >>

\* guideline = await getGuideline(page_name, page_url); if (!guideline.content) throw
Extract ==
    /\ pc = "extract"
    /\ \E m \in SectionMaps :
          guideline' = Guideline(page_name, page_url,
                                 GuidelineContent(PageTabs(page_url), m))
    /\ IF ContentRejected(guideline')
       THEN /\ failures' = failures + 1
            /\ pc' = "catch"
       ELSE /\ failures' = failures
            /\ pc' = "save"
    /\ UNCHANGED << launches, closes, all_good, traversed_pages, letter,
                    toc_links, toc_index, i, guideline_saved,
                    guides_saved_for_letter, files, loaded, escaped, attempts,
                    shortSleeps, navs, longSleeps, lastSleep, served, faults, entrySink, probe,
                    dropped, extractVars >>

\* get_links(PAGE_SECTION_SELECTOR) or a getSectionContent call throws
ExtractFails ==
    /\ pc = "extract"
    /\ ThrowAttempt
    /\ UNCHANGED << launches, closes, all_good, scrapeLocals, files, loaded,
                    escaped, attempts, shortSleeps, navs, longSleeps, lastSleep,
                    served, faults, entrySink, probe, dropped, extractVars >>

\* save_guideline; guides_saved_for_letter++; traversed_pages.add(page_name)
SaveGuideline ==
    /\ pc = "save"
    /\ sink' = Append(sink, guideline)
    /\ guides_saved_for_letter' = guides_saved_for_letter + 1
    /\ traversed_pages' = traversed_pages \cup {page_name}
    /\ pc' = "meta"
    /\ UNCHANGED << launches, closes, all_good, letter, toc_links, toc_index,
                    i, guideline_saved, guideline, meta, loaded, escaped,
                    entryHist, served, faults, probe, dropped, extractVars >>

\* mutant: the name is marked visited before the sink append is tried
SaveGuidelineFails_MarksVisited ==
    /\ pc = "save"
    /\ traversed_pages' = traversed_pages \cup {page_name}
    /\ ThrowAttempt
    /\ UNCHANGED << launches, closes, all_good, letter, toc_links, toc_index,
                    i, guideline_saved, guideline, guides_saved_for_letter,
                    files, loaded, escaped, attempts, shortSleeps, navs,
                    longSleeps, lastSleep, served, faults, entrySink, probe,
                    dropped, extractVars >>

\* fs.appendFileSync(OUTPUT_PATH, ...) throws
SaveGuidelineFails ==
    /\ pc = "save"
    /\ ThrowAttempt
    /\ UNCHANGED << launches, closes, all_good, scrapeLocals, files, loaded,
                    escaped, attempts, shortSleeps, navs, longSleeps, lastSleep,
                    served, faults, entrySink, probe, dropped, extractVars >>

\* mutant: the break is missing
SaveMetadata_NoBreak ==
    /\ pc = "meta"
    /\ meta' = Append(meta, guideline.name)
    /\ guideline_saved' = TRUE
    /\ i' = i + 1
    /\ pc' = "loop"
    /\ UNCHANGED << launches, closes, all_good, traversed_pages, letter,
                    toc_links, toc_index, guideline,
                    guides_saved_for_letter, sink, loaded, escaped, entryHist,
                    served, faults, probe, dropped, extractVars >>

\* save_metadata; guideline_saved = true; break
SaveMetadata ==
    /\ pc = "meta"
    /\ meta' = Append(meta, guideline.name)
    /\ guideline_saved' = TRUE
    /\ pc' = "entryEnd"
    /\ UNCHANGED << launches, closes, all_good, traversed_pages, letter,
                    toc_links, toc_index, i, guideline,
                    guides_saved_for_letter, sink, loaded, escaped, entryHist,
                    served, faults, probe, dropped, extractVars >>

\* fs.appendFileSync(TOC_OUTPUT_FILE, ...) throws
SaveMetadataFails ==
    /\ pc = "meta"
    /\ faults < MaxMetaFaults
    /\ faults' = faults + 1
    /\ ThrowAttempt
    /\ UNCHANGED << launches, closes, all_good, scrapeLocals, files, loaded,
                    escaped, attempts, shortSleeps, navs, longSleeps, lastSleep,
                    served, entrySink, probe, dropped, extractVars >>

\* mutant: no cooldown after the last attempt
AttemptCatch_NoSleepOnLast ==
    /\ pc = "catch"
    /\ longSleeps' = IF i + 1 < MAX_ATTEMPTS THEN longSleeps + 1 ELSE longSleeps
    /\ lastSleep' = IF i + 1 < MAX_ATTEMPTS THEN FAILURE_BACKOFF_TIMEOUT_SEC
                    ELSE lastSleep
    /\ i' = i + 1
    /\ pc' = "loop"
    /\ UNCHANGED << launches, closes, all_good, traversed_pages, letter,
                    toc_links, toc_index, guideline_saved, guideline,
                    guides_saved_for_letter, files, loaded, escaped, attempts,
                    shortSleeps, navs, failures, served, faults, entrySink,
                    probe, dropped, extractVars >>

\* catch (e) { await sleep(FAILURE_BACKOFF_TIMEOUT_SEC) } and i++
AttemptCatch ==
    /\ pc = "catch"
    /\ longSleeps' = longSleeps + 1
    /\ lastSleep' = FAILURE_BACKOFF_TIMEOUT_SEC
    /\ i' = i + 1
    /\ pc' = "loop"
    /\ UNCHANGED << launches, closes, all_good, traversed_pages, letter,
                    toc_links, toc_index, guideline_saved, guideline,
                    guides_saved_for_letter, files, loaded, escaped, attempts,
                    shortSleeps, navs, failures, served, faults, entrySink, probe,
                    dropped, extractVars >>

\* if (!guideline_saved) log; next element of toc_links. The variables i,
\* guideline and guideline_saved are local to the iteration that ends here.
EntryEnd ==
    /\ pc = "entryEnd"
    /\ toc_index' = toc_index + 1
    /\ dropped' = IF guideline_saved THEN dropped ELSE dropped \cup {page_name}
    /\ i' = 0 /\ guideline_saved' = FALSE /\ guideline' = NoGuideline
    /\ attempts' = 0 /\ shortSleeps' = 0 /\ navs' = 0 /\ failures' = 0
    /\ longSleeps' = 0 /\ lastSleep' = 0 /\ entrySink' = 0
    /\ pc' = "entry"
    /\ UNCHANGED << launches, closes, all_good, traversed_pages, letter,
                    toc_links, guides_saved_for_letter, files, loaded, escaped,
                    served, faults, probe, extractVars >>

(* ---------------- scrape(): the outer catch, and run() ---------------- *)
\* catch (e) { all_good = false }
ScrapeCatch ==
    /\ pc = "fatal"
    /\ all_good' = FALSE
    /\ pc' = "ret"
    /\ UNCHANGED << launches, closes, scrapeLocals, files, loaded, escaped,
                    entryHist, served, faults, probe, dropped, extractVars >>

\* if (all_good) { try { await run.browser.close() } catch ... }: whether
\* close() returns or throws, run() ends
RunClose ==
    /\ pc = "ret"
    /\ all_good
    /\ closes' = closes + 1
    /\ pc' = "done"
    /\ UNCHANGED << launches, all_good, scrapeLocals, files, loaded, escaped,
                    entryHist, served, faults, probe, dropped, extractVars >>

\* mutant: the browser is closed whatever scrape returned
RunNoClose_ClosesAnyway ==
    /\ pc = "ret"
    /\ ~all_good
    /\ closes' = closes + 1
    /\ pc' = "done"
    /\ UNCHANGED << launches, all_good, scrapeLocals, files, loaded, escaped,
                    entryHist, served, faults, probe, dropped, extractVars >>

\* all_good is false: run() ends without closing the browser
RunNoClose ==
    /\ pc = "ret"
    /\ ~all_good
    /\ pc' = "done"
    /\ UNCHANGED << launches, closes, all_good, scrapeLocals, files, loaded,
                    escaped, entryHist, served, faults, probe, dropped,
                    extractVars >>

Next ==
    \/ Setup \/ SetupFails \/ ScrapeBegin
    \/ LetterGoto \/ LetterGotoFails \/ LettersDone
    \/ TocAbsent \/ TocLinks \/ TocLinksFails \/ LetterEnd
    \/ TocDone \/ EntrySkip \/ EntryAccept
    \/ AttemptSleep \/ AttemptsExhausted \/ AttemptGoto \/ AttemptGotoFails
    \/ Extract \/ ExtractFails
    \/ SaveGuideline \/ SaveGuidelineFails
    \/ SaveMetadata \/ SaveMetadataFails
    \/ AttemptCatch \/ EntryEnd
    \/ ScrapeCatch \/ RunClose \/ RunNoClose

Spec == Init /\ [][Next]_vars

TypeOK ==
    /\ i \in 0..MAX_ATTEMPTS
    /\ letter \in CODE_A..(CODE_Z + 1)
    /\ faults \in 0..MaxMetaFaults
    /\ served \in 0..MaxEntries

(* ================= getGuideline() and getSectionContent() ================= *)
\* Texts are sequences of tokens; " " and "\n" are the whitespace tokens.
Whitespace == {" ", "\n"}

RECURSIVE TrimLeft(_)
TrimLeft(t) ==
    IF t # <<>> /\ Head(t) \in Whitespace THEN TrimLeft(Tail(t)) ELSE t

RECURSIVE TrimRight(_)
TrimRight(t) ==
    IF t # <<>> /\ t[Len(t)] \in Whitespace
    THEN TrimRight(SubSeq(t, 1, Len(t) - 1))
    ELSE t

\* String.prototype.trim
Trim(t) == TrimRight(TrimLeft(t))

\* const CONTENT_SUBSELECTORS = [`li`, `h2`, `p`]
CONTENT_SUBSELECTORS == <<"li", "h2", "p">>

\* an ancestor of an element: tagName and className
Anc(tag, class) == [tag |-> tag, class |-> class]
InContent == << Anc("DIV", "content"), Anc("BODY", "") >>
InNestedContent == << Anc("DIV", "content"), Anc("DIV", "content main"), Anc("BODY", "") >>
InReferences == << Anc("UL", "references"), Anc("DIV", "content"), Anc("BODY", "") >>
InAccessList == << Anc("DIV", "acces-list-container"), Anc("DIV", "content"), Anc("BODY", "") >>
InToc == << Anc("DIV", "tableofcontents"), Anc("DIV", "content"), Anc("BODY", "") >>

\* an element matched by the content selector: tagName, textContent, ancestors
El(tag, text, parents) == [tag |-> tag, text |-> text, parents |-> parents]
E_hA == El("H2", <<"A">>, InContent)
E_hB == El("H2", <<" ", "B", "\n">>, InContent)
E_px == El("P", <<"x">>, InContent)
E_ly == El("LI", <<"y">>, InContent)
E_pz == El("P", <<"z">>, InContent)
E_blank == El("P", <<" ", "\n">>, InContent)
E_nested == El("H2", <<"N">>, InNestedContent)
E_ref == El("LI", <<"r">>, InReferences)
E_acc == El("P", <<"a">>, InAccessList)
E_toc == El("H2", <<"T">>, InToc)
Elements == {E_hA, E_hB, E_px, E_ly, E_blank, E_nested, E_ref, E_acc, E_toc}

\* the page [H2 "A", P "x", LI "y", H2 "B", P "z"]
ExampleEls == <<E_hA, E_px, E_ly, E_hB, E_pz>>

\* a section page: which base containers it has, and the li/h2/p under them
PageOf(hasContent, hasGrid, els) ==
    [hasContent |-> hasContent, hasGrid |-> hasGrid, els |-> els]
Pages ==
    { PageOf(TRUE, g, els) : g \in BOOLEAN, els \in SeqsUpTo(Elements, MaxEls) }
    \cup { PageOf(TRUE, FALSE, ExampleEls), PageOf(FALSE, TRUE, ExampleEls),
           PageOf(FALSE, TRUE, <<E_px, E_hA, E_hB>>), PageOf(FALSE, FALSE, <<>>) }

\* page.$$(content_selector): the elements under the base container, if any
QueryAll(page, base) ==
    IF \/ base = "div.content" /\ page.hasContent
       \/ base = "div.aem-GridColumn section" /\ page.hasGrid
    THEN page.els
    ELSE <<>>

\* the tab links of a guideline page, as get_links(PAGE_SECTION_SELECTOR) returns them
TabLink(label) == <<label, U_sc>>
XTabLists ==
    { <<>>,
      << TabLink(L_overview), TabLink(L_lower) >>,
      << TabLink(L_symptoms) >>,
      << TabLink(L_overview), TabLink(L_symptoms), TabLink(L_diagnosis) >>,
      << TabLink(L_diagnosis), TabLink(L_lower), TabLink(L_symptoms) >> }

\* parentPath.match(/DIV\.content.*DIV\.content/): two ancestors whose
\* "TAG.class" text starts with DIV.content
StartsDivContent(a) == a.tag = "DIV" /\ a.class \in {"content", "content main"}
NestedContent(parents) ==
    \E j, k \in 1..Len(parents) :
        j < k /\ StartsDivContent(parents[j]) /\ StartsDivContent(parents[k])

\* const toAvoid = ['references', 'acces-list-container', 'tableofcontents']
toAvoid == {"references", "acces-list-container", "tableofcontents"}

\* parentPath.match(x): x is a substring of the path text
PathContains(parents, x) ==
    \E k \in 1..Len(parents) : parents[k].class = x

\* toAvoid.some(x => parentPath.match(x))
Avoided(parents) == \E x \in toAvoid : PathContains(parents, x)

\* mutant: the denylist test is missing
SkipElement_NoDenylist(el) ==
    \/ Trim(el.text) = <<>>
    \/ NestedContent(el.parents)

\* the three `continue`s of lines 143-161
SkipElement(el) ==
    \/ Trim(el.text) = <<>>
    \/ NestedContent(el.parents)
    \/ Avoided(el.parents)

\* dict[key] = value
Put(dict, key, value) ==
    [k \in (DOMAIN dict) \cup {key} |-> IF k = key THEN value ELSE dict[k]]

section_label == section_links[tab_index][1]
section_name == NormalizeLabel(section_label)
currentEl == sections[el_index]

InitExtract ==
    /\ CrawlInit
    /\ xpc = "tabs"
    /\ section_links \in XTabLists
    /\ sectionPage \in Pages
    /\ tab_index = 1
    /\ content = <<>>
    /\ base_sel = "" /\ sections = <<>> /\ el_index = 0
    /\ subsection_dict = <<>> /\ subsection_text = <<>> /\ subsection_head = <<>>
    /\ timers = 0 /\ sectionNavs = <<>> /\ passLog = <<>> /\ reported = FALSE

\* if (!section_name.match(/Symptoms|Diagnosis/)) continue
TabSkip ==
    /\ xpc = "tabs"
    /\ tab_index <= Len(section_links)
    /\ ~KeepSection(section_name)
    /\ tab_index' = tab_index + 1
    /\ UNCHANGED << crawlVars, xpc, section_links, content, sectionPage,
                    passLocals, timers, sectionNavs, passLog, reported >>

\* getSectionContent: await page.goto(section_url); page.waitForTimeout(...)
\* is started and not awaited
PassGoto ==
    /\ xpc = "tabs"
    /\ tab_index <= Len(section_links)
    /\ KeepSection(section_name)
    /\ sectionNavs' = Append(sectionNavs, section_label)
    /\ timers' = timers + 1
    /\ xpc' = "probe"
    /\ UNCHANGED << crawlVars, section_links, tab_index, content, sectionPage,
                    passLocals, passLog, reported >>

\* page.goto(section_url) throws: getSectionContent and getGuideline raise
PassGotoFails ==
    /\ xpc = "tabs"
    /\ tab_index <= Len(section_links)
    /\ KeepSection(section_name)
    /\ sectionNavs' = Append(sectionNavs, section_label)
    /\ xpc' = "raised"
    /\ UNCHANGED << crawlVars, section_links, tab_index, content, sectionPage,
                    passLocals, timers, passLog, reported >>

\* selectors = CONTENT_SUBSELECTORS.map(subsel => base_sel + ' ' + subsel)
Selectors(base) ==
    [k \in 1..Len(CONTENT_SUBSELECTORS) |-> <<base, CONTENT_SUBSELECTORS[k]>>]

\* mutant: the settle delay is awaited before the probe
PassProbe_AwaitsTimer ==
    /\ xpc = "probe"
    /\ timers = 0
    /\ base_sel' = IF sectionPage.hasContent THEN "div.content"
                   ELSE "div.aem-GridColumn section"
    /\ xpc' = "query"
    /\ UNCHANGED << crawlVars, section_links, tab_index, content, sectionPage,
                    sections, el_index, subsection_dict, subsection_text,
                    subsection_head, timers, sectionNavs, passLog, reported >>

\* lines 116-130: choose base_sel; if (selectors.length == 0) log and return {}
PassProbe ==
    /\ xpc = "probe"
    /\ LET found == check_sel(IF sectionPage.hasContent THEN "found" ELSE "absent")
           base == IF found THEN "div.content" ELSE "div.aem-GridColumn section"
       IN /\ base_sel' = base
          /\ IF Len(Selectors(base)) = 0
             THEN /\ reported' = TRUE
                  /\ content' = Put(content, section_name, <<>>)
                  /\ passLog' = Append(passLog, <<>>)
                  /\ tab_index' = tab_index + 1
                  /\ xpc' = "tabs"
             ELSE /\ xpc' = "query"
                  /\ UNCHANGED << reported, content, passLog, tab_index >>
    /\ UNCHANGED << crawlVars, section_links, sectionPage, sections, el_index,
                    subsection_dict, subsection_text, subsection_head, timers,
                    sectionNavs >>

\* mutant: the accumulators are fields of the scraper, set once and never reset
PassQuery_KeepsState ==
    /\ xpc = "query"
    /\ sections' = QueryAll(sectionPage, base_sel)
    /\ el_index' = 1
    /\ xpc' = "walk"
    /\ UNCHANGED << crawlVars, section_links, tab_index, content, sectionPage,
                    base_sel, subsection_dict, subsection_text, subsection_head,
                    timers, sectionNavs, passLog, reported >>

\* sections = await page.$$(content_selector); subsection_dict = {};
\* subsection_text = '', subsection_head = ''
PassQuery ==
    /\ xpc = "query"
    /\ sections' = QueryAll(sectionPage, base_sel)
    /\ el_index' = 1
    /\ subsection_dict' = <<>>
    /\ subsection_text' = <<>>
    /\ subsection_head' = <<>>
    /\ xpc' = "walk"
    /\ UNCHANGED << crawlVars, section_links, tab_index, content, sectionPage,
                    base_sel, timers, sectionNavs, passLog, reported >>

\* one iteration of the element loop that ends in a `continue` of lines 143-161
WalkSkip ==
    /\ xpc = "walk"
    /\ el_index <= Len(sections)
    /\ SkipElement(currentEl)
    /\ el_index' = el_index + 1
    /\ UNCHANGED << crawlVars, xpc, section_links, tab_index, content,
                    sectionPage, base_sel, sections, subsection_dict,
                    subsection_text, subsection_head, timers, sectionNavs,
                    passLog, reported >>

\* tag == 'H2': save the previous subsection if one is open, open the new one
WalkHeading ==
    /\ xpc = "walk"
    /\ el_index <= Len(sections)
    /\ ~SkipElement(currentEl)
    /\ currentEl.tag = "H2"
    /\ IF subsection_head # <<>>
       THEN /\ subsection_dict' = Put(subsection_dict, subsection_head,
                                      Trim(subsection_text))
            /\ subsection_text' = <<>>
       ELSE UNCHANGED << subsection_dict, subsection_text >>
    /\ subsection_head' = Trim(currentEl.text)
    /\ el_index' = el_index + 1
    /\ UNCHANGED << crawlVars, xpc, section_links, tab_index, content,
                    sectionPage, base_sel, sections, timers, sectionNavs,
                    passLog, reported >>

\* tag == 'LI': subsection_text += '\n- ' + text; tag == 'P': += '\n' + text
WalkText ==
    /\ xpc = "walk"
    /\ el_index <= Len(sections)
    /\ ~SkipElement(currentEl)
    /\ currentEl.tag \in {"LI", "P"}
    /\ subsection_text' =
          IF currentEl.tag = "LI"
          THEN subsection_text \o <<"\n", "- ">> \o Trim(currentEl.text)
          ELSE subsection_text \o <<"\n">> \o Trim(currentEl.text)
    /\ el_index' = el_index + 1
    /\ UNCHANGED << crawlVars, xpc, section_links, tab_index, content,
                    sectionPage, base_sel, sections, subsection_dict,
                    subsection_head, timers, sectionNavs, passLog, reported >>

\* mutant: the open heading/body pair is saved after the loop
PassReturn_FlushesTail ==
    /\ xpc = "walk"
    /\ el_index > Len(sections)
    /\ LET result == IF subsection_head # <<>>
                     THEN Put(subsection_dict, subsection_head, Trim(subsection_text))
                     ELSE subsection_dict
       IN /\ subsection_dict' = result
          /\ content' = Put(content, section_name, result)
          /\ passLog' = Append(passLog, result)
    /\ tab_index' = tab_index + 1
    /\ xpc' = "tabs"
    /\ UNCHANGED << crawlVars, section_links, sectionPage, base_sel, sections,
                    el_index, subsection_text, subsection_head, timers,
                    sectionNavs, reported >>

\* return subsection_dict; in getGuideline: content[section_name] = section_content
PassReturn ==
    /\ xpc = "walk"
    /\ el_index > Len(sections)
    /\ content' = Put(content, section_name, subsection_dict)
    /\ passLog' = Append(passLog, subsection_dict)
    /\ tab_index' = tab_index + 1
    /\ xpc' = "tabs"
    /\ UNCHANGED << crawlVars, section_links, sectionPage, passLocals, timers,
                    sectionNavs, reported >>

\* the loop over section_links is exhausted: return new Guideline(...)
GuidelineReturn ==
    /\ xpc = "tabs"
    /\ tab_index > Len(section_links)
    /\ xpc' = "returned"
    /\ UNCHANGED << crawlVars, section_links, tab_index, content, sectionPage,
                    passLocals, timers, sectionNavs, passLog, reported >>

\* a pending waitForTimeout promise settles after BACKOFF_TIMEOUT_SEC
TimerFires ==
    /\ timers > 0
    /\ timers' = timers - 1
    /\ UNCHANGED << crawlVars, xpc, section_links, tab_index, content,
                    sectionPage, passLocals, sectionNavs, passLog, reported >>

NextExtract ==
    \/ TabSkip \/ PassGoto \/ PassGotoFails \/ PassProbe \/ PassQuery
    \/ WalkSkip \/ WalkHeading \/ WalkText \/ PassReturn
    \/ GuidelineReturn \/ TimerFires

SpecExtract == InitExtract /\ [][NextExtract]_vars

TypeOKExtract ==
    /\ timers \in 0..3
    /\ el_index \in 0..(Len(sections) + 1)
    /\ xpc \in {"tabs", "probe", "query", "walk", "returned", "raised"}

(* ======================= claims ======================= *)
AlphabetPrefix(n) == [k \in 1..n |-> 64 + k]

\* C1: every record ever appended to the sink has non-empty content (an
\* attempt whose record has no section entries is failed and retried, not saved).
C1_SinkContentNonEmpty ==
    \A k \in 1..Len(sink) : DOMAIN sink[k].content # {}

\* C2: the sink never receives two records with the same guideline name.
C2_NoDuplicateNames ==
    \A j, k \in 1..Len(sink) : j # k => sink[j].name # sink[k].name

\* C3: a TOC pair whose URL fails the disease-content pattern, or passes it and
\* fails both path-subtype patterns, is skipped: the step taken for it changes
\* neither the sleeps, navigations and attempts, nor the extracted guideline,
\* the sink, the metadata log or the visited set, and moves to the next pair.
C3_RejectedUrlSkipped ==
    [][ ( /\ pc = "entry"
          /\ toc_index <= Len(toc_links)
          /\ \/ ~MatchesDiseases(page_url)
             \/ MatchesDiseases(page_url) /\ ~MatchesSubtype(page_url) )
        => ( /\ UNCHANGED << entryHist, guideline, files, traversed_pages,
                             all_good, toc_links, letter >>
             /\ toc_index' = toc_index + 1
             /\ pc' = "entry" ) ]_vars

C3_Witness ==
    /\ pc = "entry"
    /\ Len(toc_links) = 2
    /\ toc_index = 3
    /\ toc_links[1][2] = U_other
    /\ toc_links[2][2] = U_nosub
    /\ sink = <<>> /\ traversed_pages = {}

\* C4: after 5 failed attempts for one accepted guideline, scrape is at the end
\* of that entry's iteration (about to take the next entry), the name is not in
\* the visited set, nothing was appended to the sink for it, and the success
\* flag is still true.
C4_DroppedLeavesNoTrace ==
    (pc = "entryEnd" /\ failures = 5)
    => ( /\ page_name \notin traversed_pages
         /\ Len(sink) = entrySink
         /\ all_good
         /\ ~escaped )

C7_FalseIffEscaped ==
    [][ /\ (pc' \in {"ret", "done"} => (all_good' = FALSE <=> escaped'))
        /\ (pc' = "catch" => all_good' /\ ~escaped')
        /\ (escaped => UNCHANGED << loaded, letter, attempts, navs, files,
                                     traversed_pages, toc_links >>) ]_vars

C7_Witness ==
    /\ pc = "done"
    /\ ~all_good
    /\ faults > 0
    /\ Len(loaded) = 2
    /\ Len(sink) > 0

C9_TwentySixLetters ==
    /\ Len(loaded) <= 26
    /\ loaded = AlphabetPrefix(Len(loaded))
    /\ (pc \in {"ret", "done"} /\ ~escaped => Len(loaded) = 26 /\ all_good)

C9_Witness ==
    /\ pc = "done"
    /\ all_good
    /\ Len(loaded) = 26
    /\ loaded[26] = 90
    /\ Len(sink) > 0

\* C10: when the result-item selector is absent on a letter's TOC page, or the
\* probe fails, no links are extracted, no guideline is attempted, the success
\* flag is unchanged, and the loop goes on with the next letter.
C10_AbsentSelectorSkipsLetter ==
    [][ /\ ( (pc = "toc" /\ probe' \in {"absent", "error"})
             => /\ UNCHANGED << toc_links, toc_index, served, entryHist, files,
                                traversed_pages, all_good, escaped, letter >>
                /\ pc' = "letterEnd" )
        /\ ( (pc = "letterEnd" /\ probe \in {"absent", "error"})
             => /\ letter' = letter + 1
                /\ pc' = "letter"
                /\ UNCHANGED << all_good, files, entryHist, traversed_pages >> )
      ]_vars

C10_Witness ==
    /\ pc = "letterEnd"
    /\ probe = "error"
    /\ letter = 66
    /\ toc_links = <<>>
    /\ all_good
    /\ Len(sink) = 1
    /\ served = 1

SinkNameSeq == [k \in 1..Len(sink) |-> sink[k].name]

\* C11: whenever scrape has finished processing a TOC entry (saved or
\* dropped), the metadata log holds one name line per sink record, the same
\* names in the same order.
C11_MetaLockstep ==
    (pc = "entryEnd") => (meta = SinkNameSeq)

\* C19: every visited name is the name of a record of the sink, and every name
\* of the metadata log is a visited name.
C19_VisitedWithinSink ==
    /\ traversed_pages \subseteq { sink[k].name : k \in 1..Len(sink) }
    /\ { meta[k] : k \in 1..Len(meta) } \subseteq traversed_pages

C19_Witness ==
    /\ pc = "meta"
    /\ page_name \in traversed_pages
    /\ sink[Len(sink)].name = page_name
    /\ \A k \in 1..Len(meta) : meta[k] # page_name
    /\ Len(meta) = 1

PassDone == xpc \in {"tabs", "returned"} /\ passLog # <<>>

HeadingIdx(els) == { k \in 1..Len(els) : ~SkipElement(els[k]) /\ els[k].tag = "H2" }
MaxOf(S) == CHOOSE m \in S : \A n \in S : n <= m
HeadingText(els, k) == Trim(els[k].text)
\* the non-skipped headings that are followed by another non-skipped heading
FlushedIdx(els) ==
    IF HeadingIdx(els) = {} THEN {} ELSE HeadingIdx(els) \ {MaxOf(HeadingIdx(els))}
ExampleResult == [h \in {<<"A">>} |-> <<"x", "\n", "- ", "y">>]

\* C12 (as claimed): nothing is flushed after the loop, so for every element
\* sequence the text of the last non-skipped heading is not a key of the
\* returned mapping; [H2 A, P x, LI y, H2 B, P z] gives exactly {A: "x\n- y"}.
C12_LastHeadingNeverKey ==
    PassDone =>
        /\ ( HeadingIdx(sections) # {}
             => HeadingText(sections, MaxOf(HeadingIdx(sections)))
                    \notin DOMAIN subsection_dict )
        /\ ( sections = ExampleEls => subsection_dict = ExampleResult )

\* C12 (amended): the mapping changes only when a non-skipped heading is
\* processed, nothing is flushed after the loop, and the keys of the returned
\* mapping are exactly the texts of the non-skipped headings before the last
\* one; [H2 A, P x, LI y, H2 B, P z] gives exactly {A: "x\n- y"}.
C12_TailNeverFlushed ==
    [][ /\ ( (xpc = "walk" /\ subsection_dict' # subsection_dict)
             => ( /\ el_index <= Len(sections)
                  /\ ~SkipElement(currentEl)
                  /\ currentEl.tag = "H2"
                  /\ el_index' = el_index + 1 ) )
        /\ ( PassDone'
             => /\ DOMAIN subsection_dict' =
                     { HeadingText(sections', k) : k \in FlushedIdx(sections') }
                /\ passLog'[Len(passLog')] = subsection_dict'
                /\ ( sections' = ExampleEls => subsection_dict' = ExampleResult ) )
      ]_vars

C12_Witness ==
    /\ PassDone
    /\ sections = ExampleEls
    /\ subsection_dict = ExampleResult
    /\ subsection_head = <<"B">>
    /\ subsection_text = <<"\n", "z">>

\* the text a paragraph or list item adds to a body
Piece(el) ==
    IF el.tag = "LI" THEN <<"\n", "- ">> \o Trim(el.text)
    ELSE <<"\n">> \o Trim(el.text)

\* concatenation of the non-skipped p/li texts from index j up to the next
\* non-skipped heading
RECURSIVE SegmentFrom(_, _)
SegmentFrom(els, j) ==
    IF j > Len(els) THEN <<>>
    ELSE IF SkipElement(els[j]) THEN SegmentFrom(els, j + 1)
    ELSE IF els[j].tag = "H2" THEN <<>>
    ELSE Piece(els[j]) \o SegmentFrom(els, j + 1)

\* C13: for every key of the returned mapping, the body is the trimmed
\* concatenation of the non-skipped paragraph and list-item texts between an
\* occurrence of that heading and the next heading (so no text from before the
\* first heading is in any body).
C13_BodyIsSegmentAfterHeading ==
    PassDone =>
        \A h \in DOMAIN subsection_dict :
            \E k \in HeadingIdx(sections) :
                /\ HeadingText(sections, k) = h
                /\ subsection_dict[h] = Trim(SegmentFrom(sections, k + 1))

\* what the claim calls boilerplate: empty trimmed text, two div.content
\* ancestors, or an ancestor on the denylist
Boilerplate(el) ==
    \/ Trim(el.text) = <<>>
    \/ Cardinality({ k \in 1..Len(el.parents) :
                       /\ el.parents[k].tag = "DIV"
                       /\ el.parents[k].class \in {"content", "content main"} }) >= 2
    \/ \E k \in 1..Len(el.parents) :
          el.parents[k].class \in {"references", "acces-list-container", "tableofcontents"}

\* C14: the step taken for a boilerplate element, heading or not, leaves the
\* current heading, the current body and the result mapping unchanged.
C14_SkippedElementNoEffect ==
    [][ ( /\ xpc = "walk"
          /\ el_index <= Len(sections)
          /\ Boilerplate(currentEl) )
        => ( /\ UNCHANGED << subsection_head, subsection_text, subsection_dict,
                             content, passLog >>
             /\ xpc' = "walk" ) ]_vars

C14_Witness ==
    /\ xpc = "walk"
    /\ sections = <<E_hA, E_toc, E_ref>>
    /\ el_index = 4
    /\ subsection_head = <<"A">>
    /\ subsection_text = <<>>
    /\ subsection_dict = <<>>

Wanted(label) == \E k \in 1..Len(label) : label[k] \in {"Symptoms", "Diagnosis"}
WantedTabs(links, n) == { k \in 1..n : k <= Len(links) /\ Wanted(links[k][1]) }

\* C15: only tabs whose label contains Symptoms or Diagnosis are navigated to
\* and classified; every key of content is such a label; the other tabs cause
\* no navigation and no content entry.
C15_OnlyWantedTabs ==
    /\ \A k \in 1..Len(sectionNavs) : Wanted(sectionNavs[k])
    /\ \A key \in DOMAIN content : Wanted(key)
    /\ ( xpc = "tabs"
         => /\ Len(sectionNavs) = Cardinality(WantedTabs(section_links, tab_index - 1))
            /\ Len(passLog) = Len(sectionNavs) )
    /\ ( xpc = "returned"
         => /\ Len(sectionNavs) = Cardinality(WantedTabs(section_links, Len(section_links)))
            /\ DOMAIN content =
                 { NormalizeLabel(section_links[k][1]) :
                     k \in WantedTabs(section_links, Len(section_links)) } )

C15_Witness ==
    /\ xpc = "returned"
    /\ section_links = << TabLink(L_diagnosis), TabLink(L_lower), TabLink(L_symptoms) >>
    /\ sectionNavs = << L_diagnosis, L_symptoms >>
    /\ Cardinality(DOMAIN content) = 2

\* C16: the base container is div.content exactly when the page has it; when
\* the page has neither container the pass returns an empty mapping and
\* reports it.
C16_BaseSelectorOrReport ==
    /\ ( xpc \in {"query", "walk"}
         => (base_sel = "div.content" <=> sectionPage.hasContent) )
    /\ ( (PassDone /\ ~sectionPage.hasContent /\ ~sectionPage.hasGrid)
         => /\ passLog[Len(passLog)] = <<>>
            /\ reported )

\* C17: the passes run on one unchanged page return identical mappings.
C17_SamePageSameMapping ==
    \A j, k \in 1..Len(passLog) : passLog[j] = passLog[k]

C17_Witness ==
    /\ xpc = "returned"
    /\ Len(passLog) = 2
    /\ passLog[1] # <<>>
    /\ subsection_head # <<>>
    /\ subsection_text # <<>>

\* C18: a pending settle timer never holds the extractor back: whenever a
\* timer is pending, the next step of the pass (probe, query, classification,
\* return, next tab, next navigation) can be taken.
C18_TimerIsNoBarrier ==
    timers > 0 =>
        /\ (xpc = "probe" => ENABLED PassProbe)
        /\ (xpc = "query" => ENABLED PassQuery)
        /\ (xpc = "walk" => ENABLED (WalkSkip \/ WalkHeading \/ WalkText \/ PassReturn))
        /\ (xpc = "tabs" => ENABLED (TabSkip \/ PassGoto \/ GuidelineReturn))

C18_Witness ==
    /\ xpc = "walk"
    /\ Len(sectionNavs) = 2
    /\ Len(passLog) = 1
    /\ timers = 2
    /\ el_index = 2
====
